---- MODULE Spec2Model ----
(***************************************************************************)
(* Model of the HiddenMarkovModel class (src/src/HiddenMarkovModel.cpp):   *)
(* the constructor, the table accessors transition / emission / initState, *)
(* eval, and the recursive forward, backward and viterbi evaluations over  *)
(* the observation sequences of an .obs file.                              *)
(*                                                                         *)
(* Numbers.  A probability p of the tables is held as the integer          *)
(* p * Denom.  forwardHelper at time t is a sum of products of 2(t+1)      *)
(* table entries, backwardHelper at time t of 2(T-1-t) entries, and the    *)
(* values forward(), backward(), viterbiHelper(T-1) and eval() return are  *)
(* products of 2T entries, so every two values the code adds or compares   *)
(* carry the same power of Denom and the integers add and compare as the   *)
(* doubles do.  With Denom = 2 every value is a dyadic rational with a     *)
(* small numerator, which a double holds exactly.                          *)
(***************************************************************************)
EXTENDS Integers, Sequences, FiniteSets, TLC

VARIABLES
    pc,            \* "start": no object yet; "ready": constructed; "crashed": process dead
    _stateNames,   \* std::vector<std::string> _stateNames
    _transitions,  \* std::map<string, std::map<string, double>> _transitions
    _emissions,    \* std::map<string, std::map<string, double>> _emissions
    _initStates,   \* std::map<string, double> _initStates
    obsFile,       \* the .obs file, as parseObsFile reads it: a list of sequences
    call,          \* the last member call made: "forward", "backward", "viterbi"
    result         \* what that call gave back: a return value, an exception, a crash

vars == <<pc, _stateNames, _transitions, _emissions, _initStates, obsFile, call, result>>

tables == <<_stateNames, _transitions, _emissions, _initStates>>

(***************************************************************************)
(* The doubles of the tables.  A double p is held as the integer p * Denom *)
(* and the tables hold the multiples of 1 / Denom in [0,1]: 0, 0.5 and 1.  *)
(* Denom is a power of two, so that no sum or product of the evaluations   *)
(* is rounded.                                                             *)
(***************************************************************************)
Denom == 2

(***************************************************************************)
(* Bounds of the model.                                                    *)
(***************************************************************************)
\* most symbols in one .obs file, over all its sequences
MaxSymbols == 3
\* most observation sequences in one .obs file
MaxBatch == 2

\* the state names a model file may list (a prefix of these, at least one)
StateUniverse == <<"s0", "s1">>
\* the output names the model files list
OutputNames == <<"a", "b">>
\* a symbol no model file lists
UnknownSymbol == "z"
ObsSymbols == {OutputNames[i] : i \in 1..Len(OutputNames)} \cup {UnknownSymbol}

\* the recursion depth at which the call stack is exhausted; no evaluation of
\* a sequence of at least one symbol comes near it
StackLimit == MaxSymbols + 2

Range(s) == {s[i] : i \in 1..Len(s)}

RECURSIVE RowSum(_, _)
RowSum(row, n) == IF n = 0 THEN 0 ELSE row[n] + RowSum(row, n - 1)

(***************************************************************************)
(* The lines of numbers of a model file: a row of n probabilities.  Rows   *)
(* that sum to 1, and one that does not (the file is read as it is; the    *)
(* model files here have such a line for pi only).                         *)
(***************************************************************************)
GoodLines(n) == {r \in [1..n -> 0..Denom] : RowSum(r, n) = Denom}
BadLines(n) == {[k \in 1..n |-> IF k = 1 THEN Denom - 1 ELSE 0]}
Lines(n) == GoodLines(n) \cup BadLines(n)

(***************************************************************************)
(* Outcomes of an evaluation.  ins is the set of keys std::map::operator[] *)
(* added to the tables on the way (operator[] inserts a missing key).      *)
(***************************************************************************)
Val(v, ins) == [k |-> "val", v |-> v, what |-> <<>>, ins |-> ins]
Throw(what, ins) == [k |-> "throw", v |-> 0, what |-> what, ins |-> ins]
Crash(ins) == [k |-> "crash", v |-> 0, what |-> <<>>, ins |-> ins]

\* a * b on doubles, where evaluating either operand may end the evaluation
Mul(a, b) ==
    IF a.k # "val" THEN a
    ELSE IF b.k # "val" THEN [b EXCEPT !.ins = a.ins \cup b.ins]
    ELSE Val(a.v * b.v, a.ins \cup b.ins)

RECURSIVE IndexOf(_, _, _)
\* the last position of name in the list names (a later assignment to the same
\* map key overwrites an earlier one)
IndexOf(names, name, k) ==
    IF k = 0 \/ names[k] = name THEN k ELSE IndexOf(names, name, k - 1)

(***************************************************************************)
(* The table accessors.  Each looks the keys up with find() before it      *)
(* indexes the map with operator[].                                        *)
(***************************************************************************)
transition(stt1, stt2) ==
    IF stt1 \notin DOMAIN _transitions
    THEN Throw(<<"No such state", stt1>>, {})
    ELSE IF stt2 \notin DOMAIN _transitions[stt1]
         THEN Throw(<<"No such state", stt2>>, {})
         ELSE Val(_transitions[stt1][stt2], {})

\* emission() without its two find() checks: operator[] inserts what is missing
emissionUnchecked(stt, out) ==
    IF stt \notin DOMAIN _emissions
    THEN Val(0, {<<"e", stt, out>>})
    ELSE IF out \notin DOMAIN _emissions[stt]
         THEN Val(0, {<<"e", stt, out>>})
         ELSE Val(_emissions[stt][out], {})

emission(stt, out) ==
    IF stt \notin DOMAIN _emissions
    THEN Throw(<<"No such state", stt>>, {})
    ELSE IF out \notin DOMAIN _emissions[stt]
         THEN Throw(<<"No such output", out>>, {})
         ELSE Val(_emissions[stt][out], {})

\* the find() is on _emissions, the operator[] on _initStates
initState(stt) ==
    IF stt \notin DOMAIN _emissions
    THEN Throw(<<"No such state", stt>>, {})
    ELSE IF stt \in DOMAIN _initStates
         THEN Val(_initStates[stt], {})
         ELSE Val(0, {<<"i", stt, stt>>})

initEval(out, stt) == Mul(initState(stt), emission(stt, out))

\* eval(const string& out, const string stts[2])
evalStep(out, stt1, stt2) == Mul(transition(stt1, stt2), emission(stt2, out))

RECURSIVE evalLoop(_, _, _, _)
evalLoop(out, stt, k, ret) ==
    IF k > Len(out) \/ ret.k # "val" THEN ret
    ELSE evalLoop(out, stt, k + 1, Mul(ret, evalStep(out[k], stt[k - 1], stt[k])))

\* eval(const vector<string>& out, const vector<string>& stt), for a non-empty out
eval(out, stt) ==
    IF Len(out) # Len(stt) THEN Val(0, {})
    ELSE evalLoop(out, stt, 2, initEval(out[1], stt[1]))

\* the tables after operator[] has added the keys ins
InsertedE(e, ins) ==
    LET rows == DOMAIN e \cup {i[2] : i \in {x \in ins : x[1] = "e"}}
        Old(s) == IF s \in DOMAIN e THEN e[s] ELSE <<>>
        Cols(s) == DOMAIN Old(s) \cup {i[3] : i \in {x \in ins : x[1] = "e" /\ x[2] = s}}
    IN [s \in rows |-> [o \in Cols(s) |-> IF o \in DOMAIN Old(s) THEN Old(s)[o] ELSE 0]]

InsertedI(m, ins) ==
    LET keys == DOMAIN m \cup {i[2] : i \in {x \in ins : x[1] = "i"}}
    IN [s \in keys |-> IF s \in DOMAIN m THEN m[s] ELSE 0]

(***************************************************************************)
(* forward.  t is an int: obs.size()-1 is -1 for an empty sequence.  depth *)
(* counts the frames of the recursion on the call stack.                   *)
(***************************************************************************)
Add(a, b) ==
    IF a.k # "val" THEN a
    ELSE IF b.k # "val" THEN [b EXCEPT !.ins = a.ins \cup b.ins]
    ELSE Val(a.v + b.v, a.ins \cup b.ins)

RECURSIVE forwardHelper(_, _, _, _)
RECURSIVE forwardSum(_, _, _, _, _, _)

RECURSIVE forwardSumSwapped(_, _, _, _, _, _)
\* forwardSum with the two states of transition() exchanged
forwardSumSwapped(obs, t, curStt, j, sum, depth) ==
    IF j > Len(_stateNames) \/ sum.k # "val" THEN sum
    ELSE forwardSumSwapped(obs, t, curStt, j + 1,
                           Add(sum, Mul(forwardHelper(obs, t - 1, _stateNames[j], depth + 1),
                                        transition(curStt, _stateNames[j]))),
                           depth)

\* the loop of forwardHelper: sum += forwardHelper(obs, t-1, stt) * transition(stt, curStt)
forwardSum(obs, t, curStt, j, sum, depth) ==
    IF j > Len(_stateNames) \/ sum.k # "val" THEN sum
    ELSE forwardSum(obs, t, curStt, j + 1,
                    Add(sum, Mul(forwardHelper(obs, t - 1, _stateNames[j], depth + 1),
                                 transition(_stateNames[j], curStt))),
                    depth)

\* forwardHelper that returns 0 for a sum of 0 without looking obs[t] up
forwardHelperZeroShortcut(obs, t, curStt, depth) ==
    IF depth > StackLimit THEN Crash({})
    ELSE IF t = 0 THEN initEval(obs[t + 1], curStt)
    ELSE LET sum == forwardSum(obs, t, curStt, 1, Val(0, {}), depth)
         IN IF sum.k = "val" /\ sum.v = 0 THEN sum
            ELSE Mul(sum, emission(curStt, obs[t + 1]))

forwardHelper(obs, t, curStt, depth) ==
    IF depth > StackLimit THEN Crash({})
    ELSE IF t = 0 THEN initEval(obs[t + 1], curStt)
    ELSE Mul(forwardSum(obs, t, curStt, 1, Val(0, {}), depth),
             emission(curStt, obs[t + 1]))

RECURSIVE forwardOne(_, _, _)
\* the inner loop of forward(): sum += forwardHelper(obs, obs.size()-1, stt)
forwardOne(obs, j, sum) ==
    IF j > Len(_stateNames) \/ sum.k # "val" THEN sum
    ELSE forwardOne(obs, j + 1,
                    Add(sum, forwardHelper(obs, Len(obs) - 1, _stateNames[j], 1)))

RECURSIVE forward(_, _, _)
\* the outer loop of forward(): ret.push_back(sum) for each sequence; an
\* exception leaves the function and ret with it
forward(observations, i, ret) ==
    IF i > Len(observations) THEN ret
    ELSE LET sum == forwardOne(observations[i], 1, Val(0, ret.ins))
         IN IF sum.k # "val" THEN sum
            ELSE forward(observations, i + 1, Val(Append(ret.v, sum.v), sum.ins))

(***************************************************************************)
(* backward.  oob is what reading obs[i] past the end of the vector gives: *)
(* the read is undefined, so it is the symbol found there or a fault.      *)
(***************************************************************************)
Fault == "<fault>"

obsAt(obs, i, oob) == IF i + 1 \in 1..Len(obs) THEN obs[i + 1] ELSE oob

\* emission(stt, obs[i])
emissionAt(stt, obs, i, oob) ==
    IF obsAt(obs, i, oob) = Fault THEN Crash({}) ELSE emission(stt, obsAt(obs, i, oob))

RECURSIVE backwardHelper(_, _, _, _, _)
RECURSIVE backwardSum(_, _, _, _, _, _, _)

RECURSIVE backwardSumOffByOne(_, _, _, _, _, _, _)
\* backwardSum with the emission of obs[t] in place of that of obs[t+1]
backwardSumOffByOne(obs, t, curStt, j, sum, depth, oob) ==
    IF j > Len(_stateNames) \/ sum.k # "val" THEN sum
    ELSE backwardSumOffByOne(obs, t, curStt, j + 1,
                     Add(sum, Mul(Mul(transition(curStt, _stateNames[j]),
                                      emissionAt(_stateNames[j], obs, t, oob)),
                                  backwardHelper(obs, t + 1, _stateNames[j], depth + 1, oob))),
                     depth, oob)

\* the loop of backwardHelper
backwardSum(obs, t, curStt, j, sum, depth, oob) ==
    IF j > Len(_stateNames) \/ sum.k # "val" THEN sum
    ELSE backwardSum(obs, t, curStt, j + 1,
                     Add(sum, Mul(Mul(transition(curStt, _stateNames[j]),
                                      emissionAt(_stateNames[j], obs, t + 1, oob)),
                                  backwardHelper(obs, t + 1, _stateNames[j], depth + 1, oob))),
                     depth, oob)

backwardHelper(obs, t, curStt, depth, oob) ==
    IF depth > StackLimit THEN Crash({})
    ELSE IF t = Len(obs) - 1 THEN Val(1, {})
    ELSE backwardSum(obs, t, curStt, 1, Val(0, {}), depth, oob)

RECURSIVE backwardOne(_, _, _, _)
\* the inner loop of backward()
backwardOne(obs, j, sum, oob) ==
    IF j > Len(_stateNames) \/ sum.k # "val" THEN sum
    ELSE backwardOne(obs, j + 1,
                     Add(sum, Mul(Mul(initState(_stateNames[j]),
                                      emissionAt(_stateNames[j], obs, 0, oob)),
                                  backwardHelper(obs, 0, _stateNames[j], 1, oob))),
                     oob)

RECURSIVE backward(_, _, _, _)
\* the outer loop of backward()
backward(observations, i, ret, oob) ==
    IF i > Len(observations) THEN ret
    ELSE LET sum == backwardOne(observations[i], 1, Val(0, ret.ins), oob)
         IN IF sum.k # "val" THEN sum
            ELSE backward(observations, i + 1, Val(Append(ret.v, sum.v), sum.ins), oob)

(***************************************************************************)
(* viterbi.  path is the vector every frame of the recursion appends to.   *)
(* A step gives back its value r and the path as it has left it.           *)
(***************************************************************************)
\* the comparison of viterbiHelper turned round
viterbiBetterReversed(curr, maxProb) == curr < maxProb

\* if (curr > maxProb)
viterbiBetter(curr, maxProb) == curr > maxProb

RECURSIVE viterbiHelper(_, _, _, _, _)
RECURSIVE viterbiMax(_, _, _, _, _, _, _, _, _)

\* the loop of viterbiHelper over the states stt = _stateNames[j], ...
viterbiMax(obs, path, t, curStt, j, maxProb, maxStt, depth, ins) ==
    IF j > Len(_stateNames)
    THEN [r |-> Val(maxProb, ins), maxStt |-> maxStt, path |-> path]
    ELSE LET h == viterbiHelper(obs, path, t - 1, _stateNames[j], depth + 1)
             curr == Mul(h.r, transition(_stateNames[j], curStt))
         IN IF curr.k # "val"
            THEN [r |-> [curr EXCEPT !.ins = ins \cup curr.ins],
                  maxStt |-> maxStt, path |-> h.path]
            ELSE IF viterbiBetter(curr.v, maxProb)
                 THEN viterbiMax(obs, h.path, t, curStt, j + 1, curr.v, _stateNames[j],
                                 depth, ins \cup curr.ins)
                 ELSE viterbiMax(obs, h.path, t, curStt, j + 1, maxProb, maxStt,
                                 depth, ins \cup curr.ins)

viterbiHelper(obs, path, t, curStt, depth) ==
    IF depth > StackLimit THEN [r |-> Crash({}), path |-> path]
    ELSE IF t = 0 THEN [r |-> initEval(obs[t + 1], curStt), path |-> path]
    ELSE LET m == viterbiMax(obs, path, t, curStt, 1, 0, "", depth, {})
         IN IF m.r.k # "val" THEN [r |-> m.r, path |-> m.path]
            ELSE [r |-> Mul(m.r, emission(curStt, obs[t + 1])),
                  path |-> IF m.maxStt # "" THEN Append(m.path, m.maxStt) ELSE m.path]

RECURSIVE viterbiOne(_, _, _, _)
\* the inner loop of viterbi(): viterbiHelper(obs, curPath, obs.size()-1, stt),
\* its value dropped
viterbiOne(obs, j, curPath, ins) ==
    IF j > Len(_stateNames) THEN Val(curPath, ins)
    ELSE LET h == viterbiHelper(obs, curPath, Len(obs) - 1, _stateNames[j], 1)
         IN IF h.r.k # "val" THEN [h.r EXCEPT !.ins = ins \cup h.r.ins]
            ELSE viterbiOne(obs, j + 1, h.path, ins \cup h.r.ins)

RECURSIVE viterbi(_, _, _)
\* the outer loop of viterbi(): bestPaths.push_back(curPath) for each sequence
viterbi(observations, i, bestPaths) ==
    IF i > Len(observations) THEN bestPaths
    ELSE LET p == viterbiOne(observations[i], 1, <<>>, bestPaths.ins)
         IN IF p.k # "val" THEN p
            ELSE viterbi(observations, i + 1, Val(Append(bestPaths.v, p.v), p.ins))

(***************************************************************************)
(* The inputs: model files and .obs files.                                 *)
(***************************************************************************)
StateLists == {SubSeq(StateUniverse, 1, n) : n \in 1..Len(StateUniverse)}

RECURSIVE SeqsUpTo(_, _)
\* the sequences over S of length at most n
SeqsUpTo(S, n) ==
    IF n = 0 THEN {<<>>}
    ELSE LET shorter == SeqsUpTo(S, n - 1)
         IN shorter \cup {Append(q, x) : q \in {y \in shorter : Len(y) = n - 1}, x \in S}

ObsSeqs == SeqsUpTo(ObsSymbols, MaxSymbols)

RECURSIVE FilesWithin(_, _)
\* the lists of at most n sequences that hold at most budget symbols together
FilesWithin(n, budget) ==
    IF n = 0 THEN {<<>>}
    ELSE {<<>>} \cup
         UNION {{<<q>> \o rest : rest \in FilesWithin(n - 1, budget - Len(q))} :
                    q \in SeqsUpTo(ObsSymbols, budget)}

\* what parseObsFile gives for the .obs files: the sequences of the file, in
\* the order of the file, those of an empty line included
ObsFiles == FilesWithin(MaxBatch, MaxSymbols)

\* the .obs files of one sequence
OneSeqFiles == {<<obs>> : obs \in ObsSeqs}

\* what a read past the end of a sequence of the file may give; only an empty
\* sequence is read past its end
OobReads(file) ==
    IF \E i \in 1..Len(file) : file[i] = <<>> THEN ObsSymbols \cup {Fault} ELSE {Fault}

(***************************************************************************)
(* The state machine.                                                      *)
(***************************************************************************)
NoResult == [k |-> "none", v |-> 0, what |-> <<>>]

\* no object yet; the .obs file is one of files
InitWith(files) ==
    /\ pc = "start"
    /\ obsFile \in files
    /\ _stateNames = <<>>
    /\ _transitions = <<>>
    /\ _emissions = <<>>
    /\ _initStates = <<>>
    /\ call = "none"
    /\ result = NoResult

Init == InitWith(ObsFiles)

\* HiddenMarkovModel(filename): the file lists stateNames and outputNames and
\* holds the lines a (one per state), b (one per state) and pi
Construct(stateNames, outputNames, a, b, pi) ==
    /\ pc = "start"
    /\ pc' = "ready"
    /\ _stateNames' = stateNames
    /\ _transitions' =
           [i \in Range(stateNames) |->
               [j \in Range(stateNames) |->
                   a[IndexOf(stateNames, i, Len(stateNames))]
                    [IndexOf(stateNames, j, Len(stateNames))]]]
    /\ _emissions' =
           [i \in Range(stateNames) |->
               [j \in Range(outputNames) |->
                   b[IndexOf(stateNames, i, Len(stateNames))]
                    [IndexOf(outputNames, j, Len(outputNames))]]]
    /\ _initStates' =
           [i \in Range(stateNames) |-> pi[IndexOf(stateNames, i, Len(stateNames))]]
    /\ UNCHANGED <<obsFile, call, result>>

\* what a member call leaves behind: the keys it inserted, and its outcome
Returns(op, r) ==
    /\ pc' = IF r.k = "crash" THEN "crashed" ELSE "ready"
    /\ _emissions' = InsertedE(_emissions, r.ins)
    /\ _initStates' = InsertedI(_initStates, r.ins)
    /\ UNCHANGED <<_stateNames, _transitions, obsFile>>
    /\ call' = op
    /\ result' = [k |-> IF r.k = "val" THEN "ret" ELSE r.k, v |-> r.v, what |-> r.what]

\* forward(filename), filename the .obs file
Forward ==
    /\ pc = "ready"
    /\ Returns("forward", forward(obsFile, 1, Val(<<>>, {})))

\* backward(filename)
Backward(oob) ==
    /\ pc = "ready"
    /\ Returns("backward", backward(obsFile, 1, Val(<<>>, {}), oob))

\* viterbi(filename)
Viterbi ==
    /\ pc = "ready"
    /\ Returns("viterbi", viterbi(obsFile, 1, Val(<<>>, {})))

Next ==
    \/ \E names \in StateLists :
         \E a \in [1..Len(names) -> GoodLines(Len(names))],
            b \in [1..Len(names) -> GoodLines(Len(OutputNames))],
            pi \in Lines(Len(names)) :
              Construct(names, OutputNames, a, b, pi)
    \/ Forward
    \/ \E oob \in OobReads(obsFile) : Backward(oob)
    \/ Viterbi

\* the program with any .obs file
Spec == Init /\ [][Next]_vars

\* the program with an .obs file of one sequence
InitOne == InitWith(OneSeqFiles)
SpecOne == InitOne /\ [][Next]_vars

(***************************************************************************)
(* Properties of the evaluations.                                          *)
(***************************************************************************)
States == Range(_stateNames)

\* the state paths of length T
Paths(T) == [1..T -> States]

RECURSIVE SumEval(_, _)
\* the sum of eval(obs, path) over the paths in S
SumEval(obs, S) ==
    IF S = {} THEN 0
    ELSE LET p == CHOOSE x \in S : TRUE
         IN eval(obs, p).v + SumEval(obs, S \ {p})

RECURSIVE MaxEval(_, _)
\* the greatest eval(obs, path) over the paths in S (0 when S is empty)
MaxEval(obs, S) ==
    IF S = {} THEN 0
    ELSE LET p == CHOOSE x \in S : TRUE
             here == eval(obs, p).v
             rest == MaxEval(obs, S \ {p})
         IN IF here >= rest THEN here ELSE rest

Known(obs) == Range(obs) \subseteq Range(OutputNames)

RECURSIVE MapSum(_, _)
\* the sum of the entries of the map row under the keys S
MapSum(row, S) ==
    IF S = {} THEN 0
    ELSE LET x == CHOOSE y \in S : TRUE
         IN row[x] + MapSum(row, S \ {x})

\* the row has the keys it should, its entries lie in [0,1] and sum to 1
RowOk(row, keys) ==
    /\ DOMAIN row = keys
    /\ \A x \in keys : row[x] \in 0..Denom
    /\ MapSum(row, keys) = Denom

ValidModel ==
    /\ \A s \in States : RowOk(_transitions[s], States)
    /\ \A s \in States : RowOk(_emissions[s], Range(OutputNames))
    /\ RowOk(_initStates, States)

Returned(op) == pc = "ready" /\ call = op /\ result.k = "ret"

\* the value forward() / backward() computes for one sequence
forwardValue(obs) == forwardOne(obs, 1, Val(0, {})).v
backwardValue(obs) == backwardOne(obs, 1, Val(0, {}), Fault).v

RECURSIVE viterbiBestFrom(_, _)
viterbiBestFrom(obs, j) ==
    IF j > Len(_stateNames) THEN 0
    ELSE LET here == viterbiHelper(obs, <<>>, Len(obs) - 1, _stateNames[j], 1).r.v
             rest == viterbiBestFrom(obs, j + 1)
         IN IF here >= rest THEN here ELSE rest

\* max over the final states i of viterbiHelper(obs, path, T-1, i)
viterbiBest(obs) == viterbiBestFrom(obs, 1)

\* C1: for a valid model and a non-empty sequence of known symbols, what
\* forward() returns for the sequence is what backward() computes for it, and
\* what backward() returns is what forward() computes.
ForwardEqualsBackward ==
    ValidModel =>
        /\ Returned("forward") =>
              \A i \in 1..Len(obsFile) : result.v[i] = backwardValue(obsFile[i])
        /\ Returned("backward") =>
              \A i \in 1..Len(obsFile) : result.v[i] = forwardValue(obsFile[i])

\* C1: forward() has returned a value that is not 0 for a sequence of both
\* symbols and of the greatest length, in a model where either state may come
\* first
ForwardBackwardWitness ==
    /\ ValidModel
    /\ Returned("forward")
    /\ Len(obsFile) = 1
    /\ Len(obsFile[1]) = MaxSymbols
    /\ Range(obsFile[1]) = Range(OutputNames)
    /\ Len(_stateNames) = 2
    /\ \A s \in States : initEval(obsFile[1][1], s).v > 0
    /\ result.v[1] > 0
    /\ result.v[1] = backwardValue(obsFile[1])

\* C10: the value forward() returns for a sequence is the sum of eval(obs, path)
\* over all the state paths of the length of the sequence.
ForwardIsPathSum ==
    Returned("forward") =>
        \A i \in 1..Len(obsFile) :
            result.v[i] = SumEval(obsFile[i], Paths(Len(obsFile[i])))

\* C10: forward() has returned for a sequence with several paths of non-zero
\* probability
ForwardPathSumWitness ==
    /\ Returned("forward")
    /\ Len(obsFile) = 1
    /\ Len(obsFile[1]) = MaxSymbols
    /\ Cardinality({p \in Paths(MaxSymbols) : eval(obsFile[1], p).v > 0}) > 2
    /\ result.v[1] = SumEval(obsFile[1], Paths(MaxSymbols))

\* C3: for a sequence viterbi() has gone through, the greatest
\* viterbiHelper(obs, path, T-1, i) over the states i is the greatest
\* eval(obs, path) over all the state paths of length T.
ViterbiIsPathMax ==
    Returned("viterbi") =>
        \A i \in 1..Len(obsFile) :
            viterbiBest(obsFile[i]) = MaxEval(obsFile[i], Paths(Len(obsFile[i])))

\* C3: viterbi() has gone through a sequence whose paths have different
\* non-zero probabilities, the greatest of them smaller than their sum
ViterbiPathMaxWitness ==
    /\ Returned("viterbi")
    /\ Len(obsFile) = 1
    /\ Len(obsFile[1]) = MaxSymbols
    /\ viterbiBest(obsFile[1]) > 0
    /\ viterbiBest(obsFile[1]) < forwardValue(obsFile[1])
    /\ Len(_stateNames) = 2

\* C2: the path viterbi() returns for a sequence of T >= 1 known symbols has
\* exactly T entries.
ViterbiPathHasLengthT ==
    Returned("viterbi") =>
        \A i \in 1..Len(obsFile) : Len(result.v[i]) = Len(obsFile[i])

\* the values delta(t-1, j) * transition(j, s) the step (t, s) chooses among
viterbiCandidate(obs, t, s, j) ==
    viterbiHelper(obs, <<>>, t - 1, _stateNames[j], 1).r.v
        * transition(_stateNames[j], s).v

\* the state of lowest index among those of the greatest candidate value
lowestArgmax(obs, t, s) ==
    _stateNames[CHOOSE j \in 1..Len(_stateNames) :
        /\ \A n \in 1..Len(_stateNames) :
              viterbiCandidate(obs, t, s, n) <= viterbiCandidate(obs, t, s, j)
        /\ \A n \in 1..(j - 1) :
              viterbiCandidate(obs, t, s, n) < viterbiCandidate(obs, t, s, j)]

\* the predecessor the step (t, s) of viterbiHelper records ("" when none)
recordedPredecessor(obs, t, s) ==
    viterbiMax(obs, <<>>, t, s, 1, 0, "", 1, {}).maxStt

\* C4: at every step (t >= 1, state s) of a sequence viterbi() has gone
\* through, the predecessor recorded is the state of lowest index among those
\* of the greatest value delta(t-1, j) * transition(j, s), also when that
\* value is 0.
ViterbiRecordsLowestArgmax ==
    Returned("viterbi") =>
        \A i \in 1..Len(obsFile) :
            \A t \in 1..(Len(obsFile[i]) - 1) :
                \A s \in States :
                    recordedPredecessor(obsFile[i], t, s) = lowestArgmax(obsFile[i], t, s)

\* C5: a call on a file without empty sequences, one of them of known
\* symbols, returns one outcome for each sequence of the file, whether or not
\* another sequence holds an unknown symbol.
BatchOneOutcomePerSequence ==
    (/\ call # "none"
     /\ \A i \in 1..Len(obsFile) : obsFile[i] # <<>>
     /\ \E i \in 1..Len(obsFile) : Known(obsFile[i])) =>
        /\ result.k = "ret"
        /\ Len(result.v) = Len(obsFile)

\* C6: a call on a file whose one sequence is empty ends in the error
\* EmptySequence.
EmptySequenceFails ==
    (call # "none" /\ obsFile = << <<>> >>) =>
        /\ pc = "ready"
        /\ result.k = "throw"
        /\ result.what = <<"EmptySequence">>

\* C7: every model the constructor yields has rows that sum to 1 and entries
\* in [0,1].
ConstructedModelIsValid == pc # "start" => ValidModel

\* C8: no call of forward(), backward() or viterbi() changes the state names
\* or the transition, emission and initial maps, their key sets included.
CallsLeaveTablesUnchanged == [][pc = "ready" => tables' = tables]_vars

\* C8: a call has ended in a lookup error
LookupErrorWitness ==
    /\ pc = "ready"
    /\ call = "backward"
    /\ result.k = "throw"
    /\ result.what = <<"No such output", UnknownSymbol>>
    /\ Len(obsFile) = 1
    /\ UnknownSymbol \in Range(obsFile[1])
    /\ \A s \in States : UnknownSymbol \notin DOMAIN _emissions[s]

\* C9: when the sequence holds an unknown symbol, every call ends in the error
\* "No such output" and returns nothing.
UnknownSymbolFails ==
    (call # "none" /\ Len(obsFile) = 1 /\ UnknownSymbol \in Range(obsFile[1])) =>
        /\ result.k = "throw"
        /\ result.what = <<"No such output", UnknownSymbol>>

\* C9: viterbi() has ended in the error on a sequence whose last symbol alone
\* is unknown, in a model where every delta(0, j) is 0
UnknownSymbolWitness ==
    /\ call = "viterbi"
    /\ result.k = "throw"
    /\ Len(obsFile) = 1
    /\ Len(obsFile[1]) = MaxSymbols
    /\ obsFile[1][MaxSymbols] = UnknownSymbol
    /\ Known(SubSeq(obsFile[1], 1, MaxSymbols - 1))
    /\ \A s \in States : initEval(obsFile[1][1], s).v = 0

====
